---------------------------- MODULE Spec2Model ----------------------------
(***************************************************************************)
(* Model of the Basic-Auth credential encoders (src/basic_auth.cpp,        *)
(* src/tmp2.cpp) and of the CurlRequest HTTP client (src/tmp.h,            *)
(* src/tmp.cpp, src/main.cpp).                                             *)
(*                                                                         *)
(* Byte strings (std::string) are sequences of byte values 0..255; text    *)
(* literals of the source are written as the sequence of their character   *)
(* codes.                                                                  *)
(*                                                                         *)
(* Four specifications:                                                    *)
(*   SpecAuth     the encoders applied to bounded (username, password)     *)
(*                inputs;                                                  *)
(*   Spec         the life of one CurlRequest object: construction,        *)
(*                perform() with the engine's callbacks, the accessors,    *)
(*                destruction;                                             *)
(*   SpecPayload  Spec with a caller that writes to its payload buffer;    *)
(*   SpecCopy     an object and its implicit copy.                         *)
(***************************************************************************)
EXTENDS Integers, Sequences, FiniteSets

VARIABLES
    \* ---- credential encoders
    username,       \* argument of encode_basic_auth / BasicAuth::username_
    password,       \* argument of encode_basic_auth / BasicAuth::password_
    auth_header,    \* value returned by encode_basic_auth, NotCalled before
    ba_header,      \* value returned by BasicAuth::get_header, NotCalled before
    b64_out,        \* value returned by base64_encode of tmp2.cpp, NotCalled before
    \* ---- CurlRequest object (tmp.h:18-22)
    life,           \* "none" (not constructed), "alive", "destroyed"
    curl,           \* CURL *curl: NULL or the handle
    res,            \* CURLcode res (Uninit until perform assigns it)
    headers,        \* struct curl_slist *headers: the list, <<>> is NULL
    response,       \* std::string response
    \* ---- the transfer engine's handle state (libcurl)
    easy,           \* options set on the handle and its CURLINFO_RESPONSE_CODE
    phase,          \* position inside curl_easy_perform: "idle", "started", "receiving"
    undelivered,    \* body bytes the engine still has to hand to the callback
    delivered,      \* chunks handed to the callback in this transfer, in order
    write_error,    \* the callback returned a count other than the chunk size
    sent_headers,   \* header list transmitted by the last transfer
    handle_acq,     \* easy handles allocated by curl_easy_init
    handle_rel,     \* easy handles released by curl_easy_cleanup
    list_acq,       \* header lists allocated by curl_slist_append
    list_rel,       \* header lists released by curl_slist_free_all
    \* ---- the server of the current exchange
    srv_status,     \* status the server answered with, 0 if it has not answered
    srv_body,       \* body the server sends
    \* ---- the caller (main.cpp:11-19)
    caller_auth,    \* Authorization value the caller holds for this request
    ctor_outcome,   \* how the constructor ended: "none", "returned", "threw"
    outcome,        \* how the last perform() ended: "none", "returned", "threw"
    what,           \* e.what() of the exception perform() raised
    n_perform,      \* calls of perform()
    n_transfer,     \* calls of curl_easy_perform
    got_code,       \* value get_response_code() returned since the last perform()
    got_body,       \* value get_response_body() returned since the last perform()
    history,        \* all bytes handed to the callback since construction, in order
    \* ---- the request data (tmp.cpp:11-12)
    json_buf,       \* content of the caller's buffer json_str points to
    ctor_args,      \* the url and json_str strings passed to the constructor
    sent_request,   \* URL and payload transmitted by the last transfer
    \* ---- a second object made by copying the first (implicit copy
    \* ---- constructor of tmp.h:8-25)
    performer,      \* object whose perform() is running: "orig" or "copy"
    copy_life,      \* "none", "alive", "destroyed"
    copy_curl,      \* the copy's curl member
    copy_headers,   \* the copy's headers member
    copy_response,  \* the copy's response member
    copy_res,       \* the copy's res member
    copy_outcome    \* how perform() on the copy ended

auth_vars == <<username, password, auth_header, ba_header, b64_out>>
payload_vars == <<json_buf, ctor_args, sent_request>>
copy_obj == <<copy_life, copy_curl, copy_headers, copy_response, copy_res,
              copy_outcome>>
req_vars == <<life, curl, res, headers, response, easy, phase, undelivered,
              delivered, write_error, sent_headers, handle_acq, handle_rel,
              list_acq, list_rel, srv_status, srv_body, caller_auth,
              ctor_outcome, outcome, what, n_perform, n_transfer, got_code,
              got_body, history, payload_vars, performer, copy_obj>>
vars == <<auth_vars, req_vars>>

(***************************************************************************)
(* Bounds of the model.                                                    *)
(***************************************************************************)
\* longest username and longest password drawn in SpecAuth
MaxLen == 2
\* longest response body a server sends
MaxBody == 2
\* calls of perform() on the one object
MaxPerforms == 2

(***************************************************************************)
(* Helpers on sequences and bits.                                          *)
(***************************************************************************)
SeqsUpTo(S, n) == UNION {[1..k -> S] : k \in 0..n}

RECURSIVE BitAnd(_, _)
\* x & m on non-negative integers
BitAnd(x, m) ==
    IF x = 0 \/ m = 0 THEN 0
    ELSE (x % 2) * (m % 2) + 2 * BitAnd(x \div 2, m \div 2)

\* x >> n and x << n on unsigned char operands promoted to int
Shr(x, n) == x \div (2 ^ n)
Shl(x, n) == x * (2 ^ n)

\* s without its first n elements
Drop(s, n) == SubSeq(s, n + 1, Len(s))
\* the first n elements of s
Take(s, n) == SubSeq(s, 1, n)


(***************************************************************************)
(* Text literals of the source, as character codes.                        *)
(***************************************************************************)
\* ":" streamed between username and password
Colon == 58
\* '=' appended as padding
PadChar == 61
\* "Basic "
BasicPrefix == <<66, 97, 115, 105, 99, 32>>
\* "myusername" and "mypassword", the inputs of main()
MainUsername == <<109, 121, 117, 115, 101, 114, 110, 97, 109, 101>>
MainPassword == <<109, 121, 112, 97, 115, 115, 119, 111, 114, 100>>
\* "ABCDEFGHIJKLMNOPQRSTUVWXYZabcdefghijklmnopqrstuvwxyz0123456789+/"
base64_chars ==
    <<65, 66, 67, 68, 69, 70, 71, 72, 73, 74, 75, 76, 77, 78, 79, 80, 81, 82,
      83, 84, 85, 86, 87, 88, 89, 90, 97, 98, 99, 100, 101, 102, 103, 104,
      105, 106, 107, 108, 109, 110, 111, 112, 113, 114, 115, 116, 117, 118,
      119, 120, 121, 122, 48, 49, 50, 51, 52, 53, 54, 55, 56, 57, 43, 47>>

\* value of a header variable before its encoder has been called
NotCalled == <<-1>>

(***************************************************************************)
(* src/tmp2.cpp: the hand-written Base64 encoder and BasicAuth.            *)
(***************************************************************************)
\* char_array_4 computed from char_array_3 (tmp2.cpp:23-26 and 38-41)
char_array_4(a3) ==
    <<Shr(BitAnd(a3[1], 252), 2),
      (Shl(BitAnd(a3[1], 3), 4) + Shr(BitAnd(a3[2], 240), 4)) % 256,
      (Shl(BitAnd(a3[2], 15), 2) + Shr(BitAnd(a3[3], 192), 6)) % 256,
      BitAnd(a3[3], 63)>>

\* the characters base64_chars[char_array_4[j]] for j < n
EmitChars(a4, n) == [j \in 1..n |-> base64_chars[a4[j] + 1]]

\* EncodeTail without the '=' padding
EncodeTail_nopad(rest) ==
    LET i == Len(rest)
        a3 == [j \in 1..3 |-> IF j <= i THEN rest[j] ELSE 0]
    IN  IF i = 0 THEN <<>>
        ELSE EmitChars(char_array_4(a3), i + 1)

\* the tail of the encoder: i leftover bytes (tmp2.cpp:34-48)
EncodeTail(rest) ==
    LET i == Len(rest)
        a3 == [j \in 1..3 |-> IF j <= i THEN rest[j] ELSE 0]
    IN  IF i = 0 THEN <<>>
        ELSE EmitChars(char_array_4(a3), i + 1) \o [j \in 1..(3 - i) |-> PadChar]

RECURSIVE tmp2_base64_encode(_)
\* base64_encode of tmp2.cpp: full 3-byte groups in the loop, then the tail
tmp2_base64_encode(input) ==
    IF Len(input) >= 3
    THEN EmitChars(char_array_4(Take(input, 3)), 4) \o tmp2_base64_encode(Drop(input, 3))
    ELSE EncodeTail(input)

\* ss << username << ":" << password
auth_string(u, p) == u \o <<Colon>> \o p

\* BasicAuth(u, p).get_header()
get_header(u, p) == BasicPrefix \o tmp2_base64_encode(auth_string(u, p))

(***************************************************************************)
(* src/basic_auth.cpp: Base64 through the OpenSSL BIO chain.               *)
(***************************************************************************)
\* one Base64 digit of the 24-bit group value l, k = 0 the most significant
EvpDigit(l, k) == base64_chars[((l \div (64 ^ (3 - k))) % 64) + 1]

RECURSIVE BIO_f_base64(_)
\* What the memory BIO holds after BIO_write and BIO_flush through a Base64
\* filter with BIO_FLAGS_BASE64_NO_NL: the encoding of the input on one line,
\* padded, with no line break at the end.
BIO_f_base64(input) ==
    LET n == Len(input)
    IN  IF n = 0 THEN <<>>
        ELSE IF n = 1 THEN
            LET l == input[1] * 65536
            IN  <<EvpDigit(l, 0), EvpDigit(l, 1), PadChar, PadChar>>
        ELSE IF n = 2 THEN
            LET l == input[1] * 65536 + input[2] * 256
            IN  <<EvpDigit(l, 0), EvpDigit(l, 1), EvpDigit(l, 2), PadChar>>
        ELSE
            LET l == input[1] * 65536 + input[2] * 256 + input[3]
            IN  <<EvpDigit(l, 0), EvpDigit(l, 1), EvpDigit(l, 2), EvpDigit(l, 3)>>
                \o BIO_f_base64(Drop(input, 3))

\* base64_encode of basic_auth.cpp: the memory BIO's data, assigned with
\* length - 1 when the length is positive
base64_encode(input) ==
    LET buffer == BIO_f_base64(input)
        length == Len(buffer)
    IN  IF length > 0 THEN Take(buffer, length - 1) ELSE <<>>

\* encode_basic_auth(username, password)
encode_basic_auth(u, p) == BasicPrefix \o base64_encode(auth_string(u, p))

(***************************************************************************)
(* SpecAuth: the encoders applied to every bounded input pair and to the   *)
(* pair of main().                                                         *)
(***************************************************************************)
\* byte values the inputs are built from: NUL, ':', 'a' and a non-ASCII byte
AuthBytes == {0, Colon, 97, 233}

AuthStrings == SeqsUpTo(AuthBytes, MaxLen)

AuthInputs == (AuthStrings \X AuthStrings) \cup {<<MainUsername, MainPassword>>}

(***************************************************************************)
(* The CurlRequest object and the transfer engine it drives.               *)
(***************************************************************************)
\* a null pointer
NULL == 0
\* the easy handle curl_easy_init allocates
Handle == 1
\* content of res before perform() assigns it; it is read only after that
Uninit == -1
\* got_code and got_body when the accessor has not been called since the
\* last perform()
NoCode == -2
NoBody == <<-2>>
\* the caller holds no Authorization value
NoAuth == <<-3>>

\* CURLcode values
CURLE_OK == 0
CURLE_URL_MALFORMAT == 3
CURLE_COULDNT_RESOLVE_HOST == 6
CURLE_COULDNT_CONNECT == 7
CURLE_WRITE_ERROR == 23
CURLE_OPERATION_TIMEDOUT == 28
CURLE_SSL_CONNECT_ERROR == 35
CURLE_BAD_FUNCTION_ARGUMENT == 43
CURLE_RECV_ERROR == 56

\* failures the engine reports before the server has answered
ConnectErrors == {CURLE_COULDNT_RESOLVE_HOST, CURLE_COULDNT_CONNECT,
                  CURLE_OPERATION_TIMEDOUT, CURLE_SSL_CONNECT_ERROR}
\* failures the engine reports while the answer is being received
ReceiveErrors == {CURLE_OPERATION_TIMEDOUT, CURLE_RECV_ERROR}

\* curl_easy_strerror: the engine's diagnostic text of a result
curl_easy_strerror(r) ==
    CASE r = CURLE_OK -> "No error"
      [] r = CURLE_URL_MALFORMAT -> "URL using bad/illegal format or missing URL"
      [] r = CURLE_COULDNT_RESOLVE_HOST -> "Couldn't resolve host name"
      [] r = CURLE_COULDNT_CONNECT -> "Couldn't connect to server"
      [] r = CURLE_WRITE_ERROR -> "Failed writing received data to disk/application"
      [] r = CURLE_OPERATION_TIMEDOUT -> "Timeout was reached"
      [] r = CURLE_SSL_CONNECT_ERROR -> "SSL connect error"
      [] r = CURLE_BAD_FUNCTION_ARGUMENT -> "A libcurl function was given a bad argument"
      [] r = CURLE_RECV_ERROR -> "Failure when receiving data from the peer"
      [] OTHER -> "Unknown error"

\* the URL and the payload of main(), and a URL the engine cannot parse
MainUrl == "https://example.com/api"
BadUrl == "not a url"
MainJson == "{\"name\":\"John\",\"age\":30,\"city\":\"New York\"}"
Urls == {MainUrl, BadUrl}
\* another payload, "{}"
OtherJson == "{}"
Payloads == {MainJson, OtherJson}
\* the address json_str holds: the engine keeps it for CURLOPT_POSTFIELDS
\* and reads the bytes there when it sends the request
JsonPtr == "json_str"
\* sent_request before a request has been sent
NoRequest == [url |-> "", payload |-> ""]

\* Authorization values a caller may hold: none, or the encoder's output
AuthChoices == {NoAuth, encode_basic_auth(MainUsername, MainPassword)}

\* statuses a server answers with
Statuses == {200, 404, 500}
\* bytes of response bodies: '{' and '}'
BodyBytes == {123, 125}
Bodies == SeqsUpTo(BodyBytes, MaxBody)

\* values a read of the uninitialised local response_code can produce
UninitLongs == {-1, 0, 200}

\* the entry "Content-Type: application/json" of a header list
ContentTypeJson == [name |-> "Content-Type", value |-> "application/json"]

\* the state of a handle no option has been set on
FreshEasy == [httpheader |-> <<>>, writefunction |-> "none", writedata |-> "none",
              url |-> "", postfields |-> "", response_code |-> 0]

\* curl_easy_init(): a new handle, or NULL when the engine cannot allocate one
curl_easy_init_results == {Handle, NULL}

\* CtorHeaders with the entry appended twice
CtorHeaders_twice(h) == Append(Append(h, ContentTypeJson), ContentTypeJson)

\* headers after curl_slist_append(headers, "Content-Type: application/json")
CtorHeaders(h) == Append(h, ContentTypeJson)

\* the handle after the five curl_easy_setopt calls of the constructor
CtorEasy(h, url, json_str) ==
    [FreshEasy EXCEPT !.httpheader = h, !.writefunction = "write_callback",
                      !.writedata = "response", !.url = url,
                      !.postfields = json_str]

\* write_callback assigning the chunk to the buffer instead of appending it
write_callback_assign(buffer, chunk) ==
    [response |-> chunk, ret |-> Len(chunk)]

\* write_callback returning nmemb - 1 for the count of bytes taken
write_callback_short(buffer, chunk) ==
    [response |-> buffer \o chunk, ret |-> Len(chunk) - 1]

\* write_callback(ptr, size, nmemb, userdata): the buffer after the append
\* and the count returned, for a chunk of size * nmemb bytes
write_callback(buffer, chunk) ==
    [response |-> buffer \o chunk, ret |-> Len(chunk)]

\* perform_outcome ignoring the result of curl_easy_perform
perform_outcome_swallow(r) == "returned"

\* perform_outcome treating a 4xx/5xx status as a failure too
perform_outcome_http(r) ==
    IF r # CURLE_OK \/ easy.response_code >= 400 THEN "threw" ELSE "returned"

\* perform() after curl_easy_perform returned r: throw or return
perform_outcome(r) == IF r # CURLE_OK THEN "threw" ELSE "returned"

\* the message of the std::runtime_error perform() throws for r
perform_what(r) == curl_easy_strerror(r)

\* values get_response_code() can return: the handle's response code, or
\* the uninitialised local when curl_easy_getinfo rejects a null handle
get_response_code == IF curl = NULL THEN UninitLongs ELSE {easy.response_code}

\* value get_response_body() returns
get_response_body == response

\* what curl_slist_free_all(h) releases: nothing for a null list
curl_slist_free_all(h) == IF h # <<>> THEN 1 ELSE 0

\* what curl_easy_cleanup(c) releases: nothing for a null handle
curl_easy_cleanup(c) == IF c # NULL THEN 1 ELSE 0

\* results curl_easy_perform can return from the current position of the
\* transfer: a null handle is rejected; a URL that cannot be parsed, a host
\* that cannot be reached, a TLS failure or a timeout end it before the
\* answer; a callback that did not take the whole chunk, a timeout or a
\* receive failure end it during the answer; it ends with CURLE_OK once the
\* whole body has been handed to the callback
curl_easy_perform_results ==
    IF curl = NULL THEN {CURLE_BAD_FUNCTION_ARGUMENT}
    ELSE IF phase = "started"
         THEN (IF easy.url = BadUrl THEN {CURLE_URL_MALFORMAT} ELSE ConnectErrors)
    ELSE IF write_error THEN {CURLE_WRITE_ERROR}
    ELSE ReceiveErrors \cup (IF undelivered = <<>> THEN {CURLE_OK} ELSE {})

(***************************************************************************)
(* Actions of the CurlRequest life.                                        *)
(***************************************************************************)
\* CurlRequest::CurlRequest(url, json_str) (tmp.cpp:4-14), called by a caller
\* that holds the Authorization value auth: the constructor has no parameter
\* for it
CurlRequest_ctor ==
    /\ life = "none"
    /\ \E url \in Urls, json \in Payloads, auth \in AuthChoices,
          c \in curl_easy_init_results :
        /\ curl' = c
        /\ caller_auth' = auth
        /\ json_buf' = json
        /\ ctor_args' = [url |-> url, json_str |-> json]
        /\ IF c # NULL
           THEN /\ headers' = CtorHeaders(headers)
                /\ easy' = CtorEasy(headers', url, JsonPtr)
                /\ handle_acq' = handle_acq + 1
                /\ list_acq' = list_acq + 1
           ELSE UNCHANGED <<headers, easy, handle_acq, list_acq>>
    /\ life' = "alive"
    /\ ctor_outcome' = "returned"
    /\ UNCHANGED <<auth_vars, history, sent_request, performer, copy_obj,
                   res, response, phase, undelivered, delivered,
                   write_error, sent_headers, handle_rel, list_rel, srv_status,
                   srv_body, outcome, what, n_perform, n_transfer, got_code,
                   got_body>>

\* CurlRequest_dtor without the call of curl_slist_free_all
CurlRequest_dtor_leak ==
    /\ life = "alive"
    /\ phase = "idle"
    /\ life' = "destroyed"
    /\ handle_rel' = handle_rel + curl_easy_cleanup(curl)
    /\ UNCHANGED <<auth_vars, history, payload_vars, performer, copy_obj,
                   curl, res, headers, response, easy, phase,
                   undelivered, delivered, write_error, sent_headers,
                   handle_acq, list_acq, list_rel, srv_status, srv_body,
                   caller_auth, ctor_outcome, outcome, what, n_perform,
                   n_transfer, got_code, got_body>>

\* CurlRequest::~CurlRequest() (tmp.cpp:16-19)
CurlRequest_dtor ==
    /\ life = "alive"
    /\ phase = "idle"
    /\ life' = "destroyed"
    /\ list_rel' = list_rel + curl_slist_free_all(headers)
    /\ handle_rel' = handle_rel + curl_easy_cleanup(curl)
    /\ UNCHANGED <<auth_vars, history, payload_vars, performer, copy_obj,
                   curl, res, headers, response, easy, phase,
                   undelivered, delivered, write_error, sent_headers,
                   handle_acq, list_acq, srv_status, srv_body, caller_auth,
                   ctor_outcome, outcome, what, n_perform, n_transfer,
                   got_code, got_body>>

\* perform_call clearing the response buffer before the transfer
perform_call_clear ==
    /\ life = "alive"
    /\ phase = "idle"
    /\ n_perform < MaxPerforms
    /\ n_perform' = n_perform + 1
    /\ n_transfer' = n_transfer + 1
    /\ phase' = "started"
    /\ easy' = IF curl # NULL THEN [easy EXCEPT !.response_code = 0] ELSE easy
    /\ outcome' = "none"
    /\ what' = ""
    /\ got_code' = NoCode
    /\ got_body' = NoBody
    /\ srv_status' = 0
    /\ srv_body' = <<>>
    /\ undelivered' = <<>>
    /\ delivered' = <<>>
    /\ write_error' = FALSE
    /\ sent_headers' = <<>>
    /\ sent_request' = NoRequest
    /\ performer' = "orig"
    /\ response' = <<>>
    /\ UNCHANGED <<auth_vars, history, json_buf, ctor_args, copy_obj,
                   life, curl, res, headers, handle_acq,
                   handle_rel, list_acq, list_rel, caller_auth, ctor_outcome>>

\* perform() is called and enters curl_easy_perform(curl) (tmp.cpp:21-22);
\* the engine starts a transfer with the response code of the handle reset
perform_call ==
    /\ life = "alive"
    /\ phase = "idle"
    /\ n_perform < MaxPerforms
    /\ n_perform' = n_perform + 1
    /\ n_transfer' = n_transfer + 1
    /\ phase' = "started"
    /\ easy' = IF curl # NULL THEN [easy EXCEPT !.response_code = 0] ELSE easy
    /\ outcome' = "none"
    /\ what' = ""
    /\ got_code' = NoCode
    /\ got_body' = NoBody
    /\ srv_status' = 0
    /\ srv_body' = <<>>
    /\ undelivered' = <<>>
    /\ delivered' = <<>>
    /\ write_error' = FALSE
    /\ sent_headers' = <<>>
    /\ sent_request' = NoRequest
    /\ performer' = "orig"
    /\ UNCHANGED <<auth_vars, history, json_buf, ctor_args, copy_obj,
                   life, curl, res, headers, response, handle_acq,
                   handle_rel, list_acq, list_rel, caller_auth, ctor_outcome>>

\* the engine has sent the request with the handle's header list and
\* payload, and the server answers with a status and a body
server_responds ==
    /\ phase = "started"
    /\ curl # NULL
    /\ easy.url # BadUrl
    /\ \E s \in Statuses, b \in Bodies :
        /\ srv_status' = s
        /\ srv_body' = b
        /\ undelivered' = b
        /\ easy' = [easy EXCEPT !.response_code = s]
    /\ sent_headers' = easy.httpheader
    /\ sent_request' = [url |-> easy.url, payload |-> json_buf]
    /\ phase' = "receiving"
    /\ UNCHANGED <<auth_vars, history, json_buf, ctor_args, performer, copy_obj,
                   life, curl, res, headers, response, delivered,
                   write_error, handle_acq, handle_rel, list_acq, list_rel,
                   caller_auth, ctor_outcome, outcome, what, n_perform,
                   n_transfer, got_code, got_body>>

\* the engine hands the next chunk of the body, of any positive size, to the
\* registered write callback (tmp.cpp:38-42) with CURLOPT_WRITEDATA, and
\* aborts the transfer if the callback returns another count than the size
deliver_chunk ==
    /\ phase = "receiving"
    /\ ~write_error
    /\ undelivered # <<>>
    /\ \E n \in 1..Len(undelivered) :
        LET chunk == Take(undelivered, n)
            r == write_callback(response, chunk)
        IN  /\ response' = r.response
            /\ delivered' = Append(delivered, chunk)
            /\ history' = history \o chunk
            /\ IF r.ret = n
               THEN /\ undelivered' = Drop(undelivered, n)
                    /\ write_error' = FALSE
               ELSE /\ undelivered' = undelivered
                    /\ write_error' = TRUE
    /\ UNCHANGED <<auth_vars, payload_vars, performer, copy_obj,
                   life, curl, res, headers, easy, phase,
                   sent_headers, handle_acq, handle_rel, list_acq, list_rel,
                   srv_status, srv_body, caller_auth, ctor_outcome, outcome,
                   what, n_perform, n_transfer, got_code, got_body>>

\* curl_easy_perform returns r; perform() stores it in res and throws
\* std::runtime_error(curl_easy_strerror(res)) unless it is CURLE_OK
\* (tmp.cpp:22-25)
perform_end ==
    /\ phase \in {"started", "receiving"}
    /\ performer = "orig"
    /\ \E r \in curl_easy_perform_results :
        /\ res' = r
        /\ outcome' = perform_outcome(r)
        /\ what' = IF perform_outcome(r) = "threw" THEN perform_what(r) ELSE ""
    /\ phase' = "idle"
    /\ UNCHANGED <<auth_vars, history, payload_vars, performer, copy_obj,
                   life, curl, headers, response, easy, undelivered,
                   delivered, write_error, sent_headers, handle_acq,
                   handle_rel, list_acq, list_rel, srv_status, srv_body,
                   caller_auth, ctor_outcome, n_perform, n_transfer, got_code,
                   got_body>>

\* the caller calls get_response_code() (tmp.cpp:28-32)
call_get_response_code ==
    /\ life = "alive"
    /\ phase = "idle"
    /\ \E v \in get_response_code : got_code' = v
    /\ UNCHANGED <<auth_vars, history, payload_vars, performer, copy_obj,
                   life, curl, res, headers, response, easy, phase,
                   undelivered, delivered, write_error, sent_headers,
                   handle_acq, handle_rel, list_acq, list_rel, srv_status,
                   srv_body, caller_auth, ctor_outcome, outcome, what,
                   n_perform, n_transfer, got_body>>

\* the caller calls get_response_body() (tmp.cpp:34-36)
call_get_response_body ==
    /\ life = "alive"
    /\ phase = "idle"
    /\ got_body' = get_response_body
    /\ UNCHANGED <<auth_vars, history, payload_vars, performer, copy_obj,
                   life, curl, res, headers, response, easy, phase,
                   undelivered, delivered, write_error, sent_headers,
                   handle_acq, handle_rel, list_acq, list_rel, srv_status,
                   srv_body, caller_auth, ctor_outcome, outcome, what,
                   n_perform, n_transfer, got_code>>

\* the object before its constructor runs; headers is NULL by its default
\* member initialiser (tmp.h:21) and response is the empty string
InitRequest ==
    /\ life = "none"
    /\ curl = NULL
    /\ res = Uninit
    /\ headers = <<>>
    /\ response = <<>>
    /\ easy = FreshEasy
    /\ phase = "idle"
    /\ undelivered = <<>>
    /\ delivered = <<>>
    /\ write_error = FALSE
    /\ sent_headers = <<>>
    /\ handle_acq = 0
    /\ handle_rel = 0
    /\ list_acq = 0
    /\ list_rel = 0
    /\ srv_status = 0
    /\ srv_body = <<>>
    /\ caller_auth = NoAuth
    /\ ctor_outcome = "none"
    /\ outcome = "none"
    /\ what = ""
    /\ n_perform = 0
    /\ n_transfer = 0
    /\ got_code = NoCode
    /\ got_body = NoBody
    /\ history = <<>>
    /\ json_buf = ""
    /\ ctor_args = [url |-> "", json_str |-> ""]
    /\ sent_request = NoRequest
    /\ performer = "orig"
    /\ copy_life = "none"
    /\ copy_curl = NULL
    /\ copy_headers = <<>>
    /\ copy_response = <<>>
    /\ copy_res = Uninit
    /\ copy_outcome = "none"

Init ==
    /\ username = MainUsername
    /\ password = MainPassword
    /\ auth_header = NotCalled
    /\ ba_header = NotCalled
    /\ b64_out = NotCalled
    /\ InitRequest

Next ==
    \/ CurlRequest_ctor
    \/ perform_call
    \/ server_responds
    \/ deliver_chunk
    \/ perform_end
    \/ call_get_response_code
    \/ call_get_response_body
    \/ CurlRequest_dtor

Spec == Init /\ [][Next]_vars

(***************************************************************************)
(* Actions of the encoders.                                                *)
(***************************************************************************)
\* a caller calls encode_basic_auth(username, password) (basic_auth.cpp:26-31)
call_encode_basic_auth ==
    /\ auth_header = NotCalled
    /\ auth_header' = encode_basic_auth(username, password)
    /\ UNCHANGED <<username, password, ba_header, b64_out, req_vars>>

\* a caller calls BasicAuth(username, password).get_header() (tmp2.cpp:58-63)
call_get_header ==
    /\ ba_header = NotCalled
    /\ ba_header' = get_header(username, password)
    /\ UNCHANGED <<username, password, auth_header, b64_out, req_vars>>

\* a caller calls base64_encode of tmp2.cpp (tmp2.cpp:6-51) on the byte
\* string username ++ password, which may be empty
call_tmp2_base64_encode ==
    /\ b64_out = NotCalled
    /\ b64_out' = tmp2_base64_encode(username \o password)
    /\ UNCHANGED <<username, password, auth_header, ba_header, req_vars>>

InitAuth ==
    /\ \E input \in AuthInputs :
        /\ username = input[1]
        /\ password = input[2]
    /\ auth_header = NotCalled
    /\ ba_header = NotCalled
    /\ b64_out = NotCalled
    /\ InitRequest

NextAuth ==
    \/ call_encode_basic_auth
    \/ call_get_header
    \/ call_tmp2_base64_encode

SpecAuth == InitAuth /\ [][NextAuth]_vars

(***************************************************************************)
(* Reference definitions the claims about the encoders are stated with:    *)
(* Base64 as RFC 4648 defines it on the bit string of the input, and its   *)
(* inverse.  They are not taken from the source.                           *)
(***************************************************************************)
\* the 8 bits of a byte, most significant first
ByteBits(b) == [k \in 1..8 |-> (b \div (2 ^ (8 - k))) % 2]

RECURSIVE BitsOf(_)
\* the bit string of a byte string
BitsOf(s) == IF s = <<>> THEN <<>> ELSE ByteBits(Head(s)) \o BitsOf(Tail(s))

RECURSIVE BitsValue(_)
\* the number a bit string denotes
BitsValue(bits) ==
    IF bits = <<>> THEN 0
    ELSE 2 * BitsValue(Take(bits, Len(bits) - 1)) + bits[Len(bits)]

\* the characters a Base64 text may hold
Base64Alphabet == {base64_chars[i] : i \in 1..64} \cup {PadChar}

\* RFC 4648 Base64 of s: the bit string cut into 6-bit groups, the last one
\* filled with zero bits, one alphabet character per group, then '=' up to a
\* multiple of 4 characters
Rfc4648Encode(s) ==
    LET bits == BitsOf(s)
        ngroups == (Len(bits) + 5) \div 6
        filled == bits \o [k \in 1..(6 * ngroups - Len(bits)) |-> 0]
        chars == [j \in 1..ngroups |->
                    base64_chars[BitsValue(SubSeq(filled, 6 * j - 5, 6 * j)) + 1]]
    IN  chars \o [k \in 1..((4 - (ngroups % 4)) % 4) |-> PadChar]

RECURSIVE StripPadding(_)
\* t without the '=' characters at its end
StripPadding(t) ==
    IF t # <<>> /\ t[Len(t)] = PadChar THEN StripPadding(Take(t, Len(t) - 1)) ELSE t

\* the 6 bits of an alphabet character
CharBits(c) ==
    LET v == CHOOSE v \in 0..63 : base64_chars[v + 1] = c
    IN  [k \in 1..6 |-> (v \div (2 ^ (6 - k))) % 2]

RECURSIVE CharsBits(_)
CharsBits(t) == IF t = <<>> THEN <<>> ELSE CharBits(Head(t)) \o CharsBits(Tail(t))

\* Base64 decoding of t, by a decoder that does not insist on the padding:
\* every whole byte the characters before the padding determine
Base64Decode(t) ==
    LET bits == CharsBits(StripPadding(t))
    IN  [j \in 1..(Len(bits) \div 8) |-> BitsValue(SubSeq(bits, 8 * j - 7, 8 * j))]

\* d split at its first ':' ; <<d>> when it holds none
SplitAtFirstColon(d) ==
    LET at == {i \in DOMAIN d : d[i] = Colon}
    IN  IF at = {} THEN <<d>>
        ELSE LET first == CHOOSE i \in at : \A j \in at : i <= j
             IN  <<Take(d, first - 1), Drop(d, first)>>

\* "Basic bXl1c2VybmFtZTpteXBhc3N3b3Jk"
MainExpectedHeader ==
    <<66, 97, 115, 105, 99, 32, 98, 88, 108, 49, 99, 50, 86, 121, 98, 109, 70,
      116, 90, 84, 112, 116, 101, 88, 66, 104, 99, 51, 78, 51, 98, 51, 74, 107>>

(***************************************************************************)
(* Claims about encode_basic_auth, under SpecAuth.                         *)
(***************************************************************************)
\* C1: for every (username, password), encode_basic_auth returns "Basic "
\* followed by the standard Base64 encoding of username ++ ":" ++ password;
\* for ("myusername", "mypassword") that is
\* "Basic bXl1c2VybmFtZTpteXBhc3N3b3Jk".
C1_EncodeIsBasicPlusBase64 ==
    auth_header # NotCalled =>
        /\ auth_header = BasicPrefix \o Rfc4648Encode(username \o <<Colon>> \o password)
        /\ (username = MainUsername /\ password = MainPassword
                => auth_header = MainExpectedHeader)

\* C2: the output of encode_basic_auth starts with "Basic " and what follows
\* has a length that is a multiple of 4 and holds only characters of
\* [A-Za-z0-9+/=].
C2_OutputIsValidBase64 ==
    auth_header # NotCalled =>
        /\ Len(auth_header) >= Len(BasicPrefix)
        /\ Take(auth_header, Len(BasicPrefix)) = BasicPrefix
        /\ (Len(auth_header) - Len(BasicPrefix)) % 4 = 0
        /\ \A i \in (Len(BasicPrefix) + 1)..Len(auth_header) :
               auth_header[i] \in Base64Alphabet

\* C3: round trip: when username holds no ':', Base64-decoding what follows
\* "Basic " in the output of encode_basic_auth and splitting it at the first
\* ':' gives back username and password.
C3_RoundTrip ==
    (auth_header # NotCalled /\ \A i \in DOMAIN username : username[i] # Colon) =>
        SplitAtFirstColon(Base64Decode(Drop(auth_header, Len(BasicPrefix))))
            = <<username, password>>

(***************************************************************************)
(* Claims about CurlRequest, under Spec.                                   *)
(***************************************************************************)
RECURSIVE Concat(_)
\* the concatenation of a sequence of chunks
Concat(chunks) ==
    IF chunks = <<>> THEN <<>> ELSE Head(chunks) \o Concat(Tail(chunks))

\* the first perform() on the object has ended
FirstPerformEnded == phase = "idle" /\ n_perform = 1

\* some perform() on the object has ended, and none is running
PerformEnded == phase = "idle" /\ n_perform > 0

\* C4: on a freshly constructed CurlRequest, if perform() returns without
\* error for a response with status s and body B, get_response_code() is s
\* and get_response_body() is B byte for byte, however the engine split B
\* into the chunks it handed to the write callback.
C4_PerformedOutcomeIsResponse ==
    (FirstPerformEnded /\ outcome = "returned") =>
        /\ get_response_code = {srv_status}
        /\ get_response_body = srv_body
        /\ Concat(delivered) = srv_body
        /\ (life = "alive" /\ got_code # NoCode => got_code = srv_status)
        /\ (life = "alive" /\ got_body # NoBody => got_body = srv_body)

\* a body of two bytes, delivered in two chunks, read back after perform()
\* returned
C4_Witness ==
    /\ FirstPerformEnded
    /\ outcome = "returned"
    /\ srv_status = 200
    /\ Len(delivered) = 2
    /\ srv_body = <<123, 125>>
    /\ got_code = 200
    /\ got_body = <<123, 125>>

\* C5: when the engine reports a non-OK result, perform() does not return
\* normally: that call raises an error carrying the engine's diagnostic
\* text, and each perform() call runs the engine transfer exactly once.
C5_FailureIsThrownOnce ==
    /\ n_transfer = n_perform
    /\ (PerformEnded /\ res # CURLE_OK) =>
           /\ outcome = "threw"
           /\ what = curl_easy_strerror(res)

\* the host could not be resolved and perform() threw
C5_Witness ==
    /\ PerformEnded
    /\ res = CURLE_COULDNT_RESOLVE_HOST
    /\ outcome = "threw"
    /\ what = "Couldn't resolve host name"
    /\ n_transfer = 1

\* C6: a completed exchange with any status, 4xx and 5xx included, is a
\* Performed outcome: perform() returns without raising and
\* get_response_code() returns that status; perform() raises only for a
\* failure the engine reports.
C6_AnyStatusIsPerformed ==
    PerformEnded =>
        /\ (res = CURLE_OK =>
               /\ srv_status \in Statuses
               /\ outcome = "returned"
               /\ get_response_code = {srv_status})
        /\ (outcome = "threw" => res # CURLE_OK)

\* the server answered 500 and perform() returned; the caller read 500
C6_Witness ==
    /\ PerformEnded
    /\ res = CURLE_OK
    /\ srv_status = 500
    /\ outcome = "returned"
    /\ got_code = 500

\* C7: when curl_easy_init returns null, construction fails fast: the
\* failure is signalled to the caller by the constructor and no request is
\* ever attempted on that instance.
C7_InitFailureFailsFast ==
    (ctor_outcome # "none" /\ curl = NULL) =>
        /\ ctor_outcome = "threw"
        /\ n_transfer = 0

\* the header list a transfer transmitted holds an Authorization entry
HasAuthorization(list) == \E i \in DOMAIN list : list[i].name = "Authorization"

\* C8: when the caller supplies an Authorization value, the header set sent
\* in perform() holds that Authorization header besides Content-Type; when
\* none is supplied, no Authorization header is sent.
C8_AuthorizationIsSent ==
    (curl # NULL /\ srv_status # 0) =>
        /\ \E i \in DOMAIN sent_headers : sent_headers[i] = ContentTypeJson
        /\ (caller_auth # NoAuth =>
               \E i \in DOMAIN sent_headers :
                   sent_headers[i] = [name |-> "Authorization", value |-> caller_auth])
        /\ (caller_auth = NoAuth => ~HasAuthorization(sent_headers))

\* the Content-Type entries of a header list
ContentTypeEntries(list) == {i \in DOMAIN list : list[i].name = "Content-Type"}

C10_ReleasedExactlyOnce ==
    /\ handle_rel <= handle_acq
    /\ list_rel <= list_acq
    /\ handle_acq <= 1
    /\ list_acq <= 1
    /\ (life = "alive" => handle_rel = 0 /\ list_rel = 0)
    /\ (life = "destroyed" => handle_rel = handle_acq /\ list_rel = list_acq)

\* an object with a handle, destroyed after perform() threw
C10_Witness ==
    /\ life = "destroyed"
    /\ outcome = "threw"
    /\ handle_acq = 1
    /\ handle_rel = 1
    /\ list_acq = 1
    /\ list_rel = 1

\* C12: Performed and Failed are terminal: once perform() has returned or
\* raised on an instance, no later call on it starts another transfer,
\* leaves that state, or changes the recorded status code and body.
C12_TerminalStates ==
    [][(PerformEnded /\ life = "alive" /\ life' = "alive") =>
            /\ n_transfer' = n_transfer
            /\ outcome' = outcome
            /\ easy'.response_code = easy.response_code
            /\ response' = response]_vars

\* C13: the accessors yield an outcome only in the Performed state: a call
\* before perform(), after perform() raised, or on an instance whose engine
\* failed to initialise returns no value to the caller.
C13_AccessorsOnlyWhenPerformed ==
    /\ (got_code # NoCode => outcome = "returned")
    /\ (got_body # NoBody => outcome = "returned")

\* C16: when perform() fails after the engine delivered k >= 0 chunks, it
\* raises the error and get_response_body() is exactly the concatenation of
\* those k chunks, a prefix of what the server sent.
C16_FailedBodyIsDeliveredChunks ==
    (PerformEnded /\ res # CURLE_OK) =>
        /\ outcome = "threw"
        /\ get_response_body = Concat(delivered)
        /\ Len(get_response_body) <= Len(srv_body)
        /\ get_response_body = Take(srv_body, Len(get_response_body))

(***************************************************************************)
(* Further claims about the encoders, under SpecAuth.                      *)
(***************************************************************************)
\* "Basic Og=="
EmptyExpectedHeader == <<66, 97, 115, 105, 99, 32, 79, 103, 61, 61>>

\* C14: encode_basic_auth("", "") returns exactly "Basic Og==".
C14_EmptyInputs ==
    (username = <<>> /\ password = <<>> /\ auth_header # NotCalled) =>
        auth_header = EmptyExpectedHeader

\* C20: the two encoders agree: for every (username, password),
\* encode_basic_auth returns the same string as BasicAuth::get_header.
C20_EncodersAgree ==
    (auth_header # NotCalled /\ ba_header # NotCalled) => auth_header = ba_header

(***************************************************************************)
(* Claims about the response buffer, under Spec.                           *)
(***************************************************************************)
\* a is a prefix of b
IsPrefix(a, b) == Len(a) <= Len(b) /\ a = Take(b, Len(a))

C19_BufferAccumulates ==
    life = "alive" =>
        /\ get_response_body = history
        /\ (got_body # NoBody => got_body = history)

\* two perform() calls, the second one failed after a chunk; the body read
\* back holds the bytes of both transfers
C19_Witness ==
    /\ life = "alive"
    /\ PerformEnded
    /\ n_perform = 2
    /\ outcome = "threw"
    /\ delivered # <<>>
    /\ Len(history) > Len(Concat(delivered))
    /\ got_body = history

(***************************************************************************)
(* Claim about the hand-written encoder, under SpecAuth.                   *)
(***************************************************************************)
\* the alphabet character of the k-th 6-bit window (k = 1..4) of a group of
\* up to 3 bytes, missing bytes taken as zero
WindowChar(group, k) ==
    LET bits == BitsOf(group) \o [j \in 1..(24 - 8 * Len(group)) |-> 0]
    IN  base64_chars[BitsValue(SubSeq(bits, 6 * k - 5, 6 * k)) + 1]

\* C17: base64_encode of tmp2.cpp maps n bytes to exactly 4*ceil(n/3)
\* characters: each full 3-byte group gives the 4 alphabet characters of its
\* 6-bit windows, 1 leftover byte gives 2 alphabet characters and "==", 2
\* leftover bytes give 3 alphabet characters and "=", and empty input gives
\* empty output.
C17_HandWrittenBase64Shape ==
    b64_out # NotCalled =>
        LET input == username \o password
            n == Len(input)
            full == n \div 3
            left == n % 3
            tail == SubSeq(input, 3 * full + 1, n)
        IN  /\ Len(b64_out) = 4 * ((n + 2) \div 3)
            /\ \A g \in 1..full : \A k \in 1..4 :
                   b64_out[4 * (g - 1) + k]
                       = WindowChar(SubSeq(input, 3 * g - 2, 3 * g), k)
            /\ (left = 1 =>
                   /\ \A k \in 1..2 : b64_out[4 * full + k] = WindowChar(tail, k)
                   /\ b64_out[4 * full + 3] = PadChar
                   /\ b64_out[4 * full + 4] = PadChar)
            /\ (left = 2 =>
                   /\ \A k \in 1..3 : b64_out[4 * full + k] = WindowChar(tail, k)
                   /\ b64_out[4 * full + 4] = PadChar)
            /\ (n = 0 => b64_out = <<>>)

\* an input of 4 bytes: one full group and one leftover byte, encoded to 8
\* characters ending in "=="
C17_Witness ==
    /\ b64_out # NotCalled
    /\ Len(username \o password) = 4
    /\ Len(b64_out) = 8
    /\ b64_out[7] = PadChar
    /\ b64_out[8] = PadChar

(***************************************************************************)
(* SpecPayload: the life of one CurlRequest whose caller also writes to    *)
(* its own payload buffer.  CURLOPT_POSTFIELDS (tmp.cpp:12) keeps the      *)
(* pointer json_str; the engine reads the bytes when it sends the request. *)
(***************************************************************************)
\* the caller overwrites the buffer it passed as json_str
caller_overwrites_payload ==
    /\ life = "alive"
    /\ phase = "idle"
    /\ \E json \in Payloads \ {json_buf} : json_buf' = json
    /\ UNCHANGED <<auth_vars, history, ctor_args, sent_request, performer,
                   copy_obj, life, curl, res, headers, response, easy, phase,
                   undelivered, delivered, write_error, sent_headers,
                   handle_acq, handle_rel, list_acq, list_rel, srv_status,
                   srv_body, caller_auth, ctor_outcome, outcome, what,
                   n_perform, n_transfer, got_code, got_body>>

NextPayload ==
    \/ Next
    \/ caller_overwrites_payload

SpecPayload == Init /\ [][NextPayload]_vars

\* C18: the URL and the payload perform() hands to the engine for
\* transmission are exactly the strings passed to the constructor, whatever
\* the caller does with its own payload string between construction and the
\* return of perform().
C18_RequestSpecIsFixed ==
    /\ (life = "alive" /\ curl # NULL => easy.url = ctor_args.url)
    /\ (sent_request # NoRequest =>
           sent_request = [url |-> ctor_args.url, payload |-> ctor_args.json_str])

(***************************************************************************)
(* SpecCopy: the first object and a second one made from it by the         *)
(* implicit copy constructor (tmp.h declares none and deletes none).  The  *)
(* copy holds the same curl and headers pointers and its own copy of       *)
(* response; the handle's CURLOPT_WRITEDATA still points to the response   *)
(* of the first object.  Calls that would hand an already released handle  *)
(* to the engine are undefined and are left out of this specification; the *)
(* second release itself is counted.  The accessors change no field and    *)
(* are left out as well.                                                   *)
(***************************************************************************)
\* the handle has not been released (or there is none), and the engine has
\* run fewer than MaxPerforms transfers on it
HandleUsable == handle_rel = 0 /\ n_transfer < MaxPerforms

\* CurlRequest copy(request): memberwise copy
copy_ctor ==
    /\ life = "alive"
    /\ phase = "idle"
    /\ copy_life = "none"
    /\ copy_life' = "alive"
    /\ copy_curl' = curl
    /\ copy_headers' = headers
    /\ copy_response' = response
    /\ copy_res' = res
    /\ UNCHANGED <<auth_vars, history, payload_vars, performer, copy_outcome,
                   life, curl, res, headers, response, easy, phase,
                   undelivered, delivered, write_error, sent_headers,
                   handle_acq, handle_rel, list_acq, list_rel, srv_status,
                   srv_body, caller_auth, ctor_outcome, outcome, what,
                   n_perform, n_transfer, got_code, got_body>>

\* copy.perform() enters curl_easy_perform(copy.curl) (tmp.cpp:21-22)
copy_perform_call ==
    /\ copy_life = "alive"
    /\ life = "alive"
    /\ phase = "idle"
    /\ copy_outcome = "none"
    /\ HandleUsable
    /\ performer' = "copy"
    /\ n_transfer' = n_transfer + 1
    /\ phase' = "started"
    /\ easy' = IF copy_curl # NULL THEN [easy EXCEPT !.response_code = 0] ELSE easy
    /\ srv_status' = 0
    /\ srv_body' = <<>>
    /\ undelivered' = <<>>
    /\ delivered' = <<>>
    /\ write_error' = FALSE
    /\ sent_headers' = <<>>
    /\ sent_request' = NoRequest
    /\ UNCHANGED <<auth_vars, history, json_buf, ctor_args, copy_obj, life,
                   curl, res, headers, response, handle_acq, handle_rel,
                   list_acq, list_rel, caller_auth, ctor_outcome, outcome,
                   what, n_perform, got_code, got_body>>

\* curl_easy_perform returns r to copy.perform(), which stores it in its res
\* and throws unless it is CURLE_OK (tmp.cpp:22-25)
copy_perform_end ==
    /\ phase \in {"started", "receiving"}
    /\ performer = "copy"
    /\ \E r \in curl_easy_perform_results :
        /\ copy_res' = r
        /\ copy_outcome' = perform_outcome(r)
    /\ phase' = "idle"
    /\ performer' = "orig"
    /\ UNCHANGED <<auth_vars, history, payload_vars, copy_life, copy_curl,
                   copy_headers, copy_response, life, curl, res, headers,
                   response, easy, undelivered, delivered, write_error,
                   sent_headers, handle_acq, handle_rel, list_acq, list_rel,
                   srv_status, srv_body, caller_auth, ctor_outcome, outcome,
                   what, n_perform, n_transfer, got_code, got_body>>

\* the copy's destructor (tmp.cpp:16-19)
copy_dtor ==
    /\ copy_life = "alive"
    /\ phase = "idle"
    /\ copy_life' = "destroyed"
    /\ list_rel' = list_rel + curl_slist_free_all(copy_headers)
    /\ handle_rel' = handle_rel + curl_easy_cleanup(copy_curl)
    /\ UNCHANGED <<auth_vars, history, payload_vars, performer, copy_curl,
                   copy_headers, copy_response, copy_res, copy_outcome, life,
                   curl, res, headers, response, easy, phase, undelivered,
                   delivered, write_error, sent_headers, handle_acq, list_acq,
                   srv_status, srv_body, caller_auth, ctor_outcome, outcome,
                   what, n_perform, n_transfer, got_code, got_body>>

\* perform() of the first object while the handle is usable
orig_perform_call == HandleUsable /\ perform_call

NextCopy ==
    \/ CurlRequest_ctor
    \/ orig_perform_call
    \/ server_responds
    \/ deliver_chunk
    \/ perform_end
    \/ CurlRequest_dtor
    \/ copy_ctor
    \/ copy_perform_call
    \/ copy_perform_end
    \/ copy_dtor

SpecCopy == Init /\ [][NextCopy]_vars

\* C11: no two live CurlRequest instances, copies included, refer to the
\* same transfer handle or the same header list, or have the engine write
\* into the same response buffer; no handle or header list is released
\* twice, and no engine callback writes into another instance's buffer.
C11_ExclusiveOwnership ==
    /\ (life = "alive" /\ copy_life = "alive") =>
           /\ (curl # NULL => copy_curl # curl)
           /\ (headers # <<>> => copy_headers # headers)
    /\ handle_rel <= handle_acq
    /\ list_rel <= list_acq
    /\ (performer = "copy" => response = copy_response)

=============================================================================
